---- MODULE Spec2Model ----
(***************************************************************************)
(* Model of autoprompt/continuous_trigger_mlm.py: the trigger-augmented    *)
(* forward pass (forward_w_triggers) and the masked-position decoder       *)
(* (decode) with its three strategies, under Spec; and the epoch loop of   *)
(* main with its best-checkpoint selection, under SpecMain.                *)
(*                                                                         *)
(* Tensors are functions: a (batch x sequence) tensor is                   *)
(* [0..B-1 -> [0..SeqLen-1 -> value]], indices 0-based as in the source.   *)
(* A Python dict is a function from key strings to tensors; dict objects   *)
(* live in a small heap so that copy-versus-alias is visible.              *)
(***************************************************************************)
EXTENDS Integers, Sequences, FiniteSets, TLC

\* ---------------------------------------------------------------- bounds
MaxBatch == 2
SeqLen == 3
VocabSize == 2
MaxTrig == 2
LogitMod == 3
\* main: epochs of a run, batches of the training loader, dev examples
MaxEpochs == 3
MaxTrain == 1
MaxDev == 2

\* ------------------------------------------------------ program constants
\* output.fill_(-100): the ignore label
IGNORE == -100
\* logits[~predict_mask] = -1e32: below every logit the model produces
NEG_HUGE == -1000

Pos == 0 .. (SeqLen - 1)
Tok == 0 .. (VocabSize - 1)
RowsOf(t) == DOMAIN t
None == "None"

\* the choices of --decoding-strategy plus one value outside them
Strategies == {"parallel", "monotonic", "iterative", "greedy"}

\* How the build's max/argmax kernels resolve ties between equal maxima.
TiePolicies == {"first", "last"}

\* ------------------------------------------------------- tensor helpers
Min(S) == CHOOSE x \in S : \A y \in S : x <= y
Max(S) == CHOOSE x \in S : \A y \in S : y <= x

\* predict_mask.sum().item()
MaskSum(mask) == Cardinality({c \in RowsOf(mask) \X Pos : mask[c[1]][c[2]]})

\* row-major (lexicographic) order of index pairs
Before(c, d) == c[1] < d[1] \/ (c[1] = d[1] /\ c[2] < d[2])

\* mask.nonzero(): the index pairs of the true entries, in row-major order
Nonzero(mask) ==
    LET S == {c \in RowsOf(mask) \X Pos : mask[c[1]][c[2]]}
    IN  [k \in 1 .. Cardinality(S) |->
            CHOOSE c \in S : Cardinality({d \in S : Before(d, c)}) = k - 1]

\* the maximisers of a vector
ArgMaxSet(f) == {x \in DOMAIN f : \A y \in DOMAIN f : f[y] <= f[x]}

\* a wrong argmax: always the first index
ArgMaxAsFirstIndex(f, tie) == Min(DOMAIN f)

\* a wrong argmax: returns a minimiser
ArgMaxAsArgMin(f, tie) ==
    LET S == {x \in DOMAIN f : \A y \in DOMAIN f : f[x] <= f[y]}
    IN  IF tie = "first" THEN Min(S) ELSE Max(S)

\* argmax(dim=-1) of one vector; ties resolved by the kernel's policy
ArgMax(f, tie) ==
    IF tie = "first" THEN Min(ArgMaxSet(f)) ELSE Max(ArgMaxSet(f))

\* the max value of a vector (the values half of torch.max(..., dim=-1))
MaxVal(f) == Max({f[x] : x \in DOMAIN f})

\* ------------------------------------------------------------- the model
\* The pretrained masked LM is an external collaborator.  A model is drawn
\* from a small family: nt is templatizer.num_trigger_tokens (the rows of
\* relation_embeds); a and c weigh position and row context in the logits it
\* produces, so logits differ between positions (or tie, with a = 0) and
\* change when decode fills in a token (with c = 1).
Models == [nt : 1 .. MaxTrig, a : 0 .. 1, c : 0 .. 1]

\* the model the direct forward_w_triggers calls are made with
DefaultWeights(nt) == [nt |-> nt, a |-> 1, c |-> 1]

\* model.relation_embeds: one embedding vector per trigger token
RelationEmbeds(model) == [k \in 0 .. (model.nt - 1) |-> <<"trig", k>>]

\* t.repeat((n, 1)): the rows of t, n times over
Repeat(t, n) ==
    LET T == Cardinality(DOMAIN t)
    IN  [j \in 0 .. (n * T - 1) |-> t[j % T]]

\* model.embeds(input_ids): a fresh tensor of token embeddings
Embeds(input_ids) ==
    [r \in RowsOf(input_ids) |-> [p \in Pos |-> <<"tok", input_ids[r][p]>>]]

\* the number of true entries of mask before (r, p) in row-major order
RankIn(mask, r, p) ==
    Cardinality({c \in RowsOf(mask) \X Pos :
                   mask[c[1]][c[2]] /\ Before(c, <<r, p>>)})

\* an index_put that recycles the value rows instead of checking the shape
IndexPutRecycle(x, mask, values) ==
    LET k == Cardinality(DOMAIN values)
    IN  [raised |-> FALSE,
         x |-> [r \in DOMAIN x |-> [p \in Pos |->
                  IF mask[r][p] THEN values[RankIn(mask, r, p) % k]
                  ELSE x[r][p]]]]

\* x[mask] = values: the j-th true entry of mask (row-major) receives row j
\* of values; a single row of values is broadcast to every true entry; any
\* other row count than the number of true entries is a shape mismatch.
IndexPut(x, mask, values) ==
    LET n == MaskSum(mask)
        k == Cardinality(DOMAIN values)
    IN  IF k = n
        THEN [raised |-> FALSE,
              x |-> [r \in DOMAIN x |-> [p \in Pos |->
                       IF mask[r][p] THEN values[RankIn(mask, r, p)]
                       ELSE x[r][p]]]]
        ELSE IF k = 1
        THEN [raised |-> FALSE,
              x |-> [r \in DOMAIN x |-> [p \in Pos |->
                       IF mask[r][p] THEN values[0] ELSE x[r][p]]]]
        ELSE [raised |-> TRUE, x |-> x]

\* what one embedding contributes to its row's context: its token id, or
\* its row of relation_embeds
Weight(e) == e[2]

RECURSIVE CtxUpTo(_, _, _)
CtxUpTo(embrow, attnrow, n) ==
    IF n = 0 THEN 0
    ELSE CtxUpTo(embrow, attnrow, n - 1)
         + (IF attnrow[n - 1] = 1 THEN Weight(embrow[n - 1]) ELSE 0)

\* the attended content of one example
Ctx(embrow, attnrow) == CtxUpTo(embrow, attnrow, SeqLen)

\* model(inputs_embeds=..., attention_mask=..., labels=...): logits per
\* (row, position, token), each row computed from that row alone; a loss
\* only when labels are given.
ModelForward(model, inputs_embeds, attention_mask, labels) ==
    [logits |-> [r \in DOMAIN inputs_embeds |-> [p \in Pos |-> [v \in Tok |->
                    (model.a * p + v
                     + model.c * Ctx(inputs_embeds[r], attention_mask[r]))
                    % LogitMod]]],
     loss |-> IF labels = None THEN None ELSE "loss"]

\* ---------------------------------------------------------------- dicts
\* A dict maps keys to tensor addresses; the heap maps dict references to
\* dicts.  The caller's dict is at reference 0.
BundleKeys == {"input_ids", "trigger_mask", "predict_mask", "attention_mask"}

\* no copy: the function works on the caller's dict itself
DictCopyAsAlias(heap, ref) == [heap |-> heap, ref |-> ref]

\* d.copy(): a new dict object with the same keys and the same tensors
DictCopy(heap, ref) == [heap |-> heap @@ (1 :> heap[ref]), ref |-> 1]

\* d.pop(key), for a key that is present
DictPop(d, key) == [k \in (DOMAIN d) \ {key} |-> d[k]]

\* d[key] = addr
DictSet(d, key, addr) ==
    [k \in (DOMAIN d) \cup {key} |-> IF k = key THEN addr ELSE d[k]]

\* --------------------------------------------------- forward_w_triggers
\* Returns what the call leaves behind: the caller's dict, whether it
\* raised (and what), whether the model's forward was invoked, the keyword
\* arguments the model received, and the model's outputs.
ForwardWTriggers(model, model_inputs, tensors, labels) ==
    LET cp == DictCopy((0 :> model_inputs), 0)
        loc == cp.ref
        d0 == cp.heap[loc]
        popped == {"trigger_mask", "predict_mask", "input_ids"}
        failed(kind, caller) ==
            [raised |-> TRUE, err |-> kind, caller |-> caller,
             invoked |-> FALSE, kwargs |-> {}, logits |-> <<>>, loss |-> None]
    IN  IF ~(popped \subseteq DOMAIN d0)
        THEN failed("KeyError", cp.heap[0])
        ELSE
        LET trigger_mask == tensors[d0["trigger_mask"]]
            input_ids == tensors[d0["input_ids"]]
            h1 == [cp.heap EXCEPT ![loc] =
                     DictPop(DictPop(DictPop(@, "trigger_mask"),
                                     "predict_mask"), "input_ids")]
            batch_size == Cardinality(RowsOf(input_ids))
            put == IndexPut(Embeds(input_ids), trigger_mask,
                            Repeat(RelationEmbeds(model), batch_size))
            h2 == [h1 EXCEPT ![loc] = DictSet(@, "inputs_embeds", "inputs_embeds")]
            out == ModelForward(model, put.x,
                                tensors[h2[loc]["attention_mask"]], labels)
        IN  IF put.raised
            THEN failed("RuntimeError", h1[0])
            ELSE [raised |-> FALSE, err |-> "none", caller |-> h2[0],
                  invoked |-> TRUE,
                  kwargs |-> (DOMAIN h2[loc]) \cup {"labels"},
                  logits |-> out.logits, loss |-> out.loss]

\* ---------------------------------------------------------------- state
VARIABLES
    call,              \* which function the caller invokes
    pc,                \* where the call is: "call", a branch of decode,
                       \* "exit", "returned" or "raised"
    err,               \* the exception raised, "none" if none
    decoding_strategy, \* decode's decoding_strategy argument
    model,             \* the model object
    labels,            \* forward_w_triggers' labels argument
    model_inputs,      \* the caller's dict: key -> tensor address
    tensors,           \* tensor address -> tensor value
    orig,              \* the dict and the tensors as they were at the call
    output,            \* decode's output buffer, << >> until allocated
    iterations,        \* decode's iterations
    i,                 \* decode's loop variable: iterations completed
    forward_calls,     \* invocations of the model's forward so far
    logits,            \* logits returned by the latest forward pass
    loss,              \* loss returned by the latest forward pass
    idx,               \* the index selected by the latest iteration
    top_scores         \* top_scores of the latest iterative iteration

\* main's state; call, pc and err above are shared with it
VARIABLES
    args,              \* the parsed arguments main reads: epochs,
                       \* evaluation_strategy, tmp
    train_loader,      \* number of batches of the training loader
    dev_loader,        \* number of examples of the dev loader
    restored_at_start, \* whether a checkpoint file existed when main began
    epoch,             \* main's loop variable: epochs completed
    params,            \* the model's parameters: the number of the epoch
                       \* whose training produced them, 0 as initialised,
                       \* -1 as loaded from a checkpoint of an earlier run
    accuracy,          \* accuracy of the latest evaluation
    best_accuracy,     \* main's best_accuracy
    ckpt,              \* the file at ckpt_path: << >> when absent, else
                       \* <<the parameters saved in it>>
    history            \* one record per completed epoch: its dev accuracy,
                       \* the parameters evaluated, whether it wrote the
                       \* checkpoint, best_accuracy at its end

main_vars == <<args, train_loader, dev_loader, restored_at_start, epoch,
               params, accuracy, best_accuracy, ckpt, history>>

decode_vars == <<decoding_strategy, model, labels, model_inputs, tensors,
                 orig, output, iterations, i, forward_calls, logits, loss,
                 idx, top_scores>>

vars == <<call, pc, err, decode_vars, main_vars>>

\* main's variables while main is not the function called
MainNotCalled ==
    /\ args = None
    /\ train_loader = 0
    /\ dev_loader = 0
    /\ restored_at_start = FALSE
    /\ epoch = 0
    /\ params = 0
    /\ accuracy = None
    /\ best_accuracy = None
    /\ ckpt = << >>
    /\ history = << >>

Rows == RowsOf(tensors["input_ids"])
N0 == MaskSum(orig.tensors["predict_mask"])

\* ----------------------------------------------------------------- Init
\* a (B x SeqLen) tensor filled with v
Full(B, v) == [r \in 0 .. (B - 1) |-> [p \in Pos |-> v]]

\* The dict the collator builds: every key bound to its own tensor.
FreshDict == [k \in BundleKeys |-> k]

\* the predict or trigger masks of batches of 1 .. MaxBatch examples
Masks == UNION {[0 .. (b - 1) -> [Pos -> BOOLEAN]] : b \in 1 .. MaxBatch}

\* Bundles passed to decode satisfy the collator's invariants: each example
\* has exactly nt trigger positions (the template's leading trigger block),
\* no position is both trigger and predict, and the predict positions hold
\* the mask token (id 0 here).
DecodeBundles(m) ==
    {[input_ids |-> [r \in DOMAIN pm |-> [p \in Pos |->
                       IF pm[r][p] THEN 0 ELSE (r + p) % VocabSize]],
      trigger_mask |-> [r \in DOMAIN pm |-> [p \in Pos |-> p < m.nt]],
      predict_mask |-> pm,
      attention_mask |-> Full(Cardinality(DOMAIN pm), 1)] :
        pm \in {x \in Masks :
                  \A r \in DOMAIN x, p \in Pos : ~(x[r][p] /\ p < m.nt)}}

\* Bundles passed straight to forward_w_triggers: any trigger mask.
ForwardBundles ==
    {[input_ids |-> [r \in DOMAIN tm |-> [p \in Pos |-> (r + p) % VocabSize]],
      trigger_mask |-> tm,
      predict_mask |-> [r \in DOMAIN tm |-> [p \in Pos |->
                          p = SeqLen - 1 /\ ~tm[r][p]]],
      attention_mask |-> Full(Cardinality(DOMAIN tm), 1)] :
        tm \in Masks}

Init ==
    /\ call \in {"decode", "forward_w_triggers"}
    /\ pc = "call"
    /\ err = "none"
    /\ model \in {m \in Models : /\ m.nt < SeqLen
                                 /\ call = "forward_w_triggers" => m = DefaultWeights(m.nt)}
    /\ model_inputs = FreshDict
    /\ IF call = "decode"
       THEN /\ decoding_strategy \in Strategies
            /\ labels = None
            /\ tensors \in DecodeBundles(model)
       ELSE /\ decoding_strategy = None
            /\ labels \in {None, "labels"}
            /\ tensors \in ForwardBundles
    /\ orig = [dict |-> model_inputs, tensors |-> tensors]
    /\ output = << >>
    /\ iterations = 0
    /\ i = 0
    /\ forward_calls = 0
    /\ logits = << >>
    /\ loss = None
    /\ idx = << >>
    /\ top_scores = << >>
    /\ MainNotCalled

\* --------------------------------------------------------------- decode
\* assert decoding_strategy in ['parallel', 'monotonic', 'iterative']
AssertStrategy(strategy) == strategy \in {"parallel", "monotonic", "iterative"}

\* an if/elif chain whose final else falls back to a default strategy
DispatchElseParallel(strategy) ==
    IF strategy \in {"monotonic", "iterative"} THEN strategy ELSE "parallel"

\* the if / elif / elif / else chain: the branch taken
Dispatch(strategy) ==
    IF strategy = "parallel" THEN "parallel"
    ELSE IF strategy = "monotonic" THEN "monotonic"
    ELSE IF strategy = "iterative" THEN "iterative"
    ELSE "else"

\* one iteration too many
IterationsPlusOne(predict_mask) == MaskSum(predict_mask) + 1

\* iterations = predict_mask.sum().item()
Iterations(predict_mask) == MaskSum(predict_mask)

\* output = torch.zeros_like(input_ids); output.fill_(-100)
FilledLike(input_ids) == Full(Cardinality(RowsOf(input_ids)), IGNORE)

\* t[:, cols] = vals: every row of t, at each column of cols
SetColumns(t, cols, vals) ==
    [r \in DOMAIN t |-> [p \in Pos |-> IF p \in cols THEN vals[r][p] ELSE t[r][p]]]

\* the exception leaves the function: nothing is returned
Raise(kind) ==
    /\ pc' = "raised"
    /\ err' = kind

\* Entry of decode: the assert (skipped when Python runs with asserts
\* disabled), the output buffer, and the choice of branch.
DecodeEntry ==
    /\ call = "decode"
    /\ pc = "call"
    /\ \E asserts_enabled \in BOOLEAN :
         IF asserts_enabled /\ ~AssertStrategy(decoding_strategy)
         THEN /\ Raise("AssertionError")
              /\ UNCHANGED <<output, iterations>>
         ELSE LET branch == Dispatch(decoding_strategy)
              IN  /\ output' = FilledLike(tensors[model_inputs["input_ids"]])
                  /\ IF branch = "else"
                     THEN /\ Raise("ValueError")
                          /\ UNCHANGED iterations
                     ELSE /\ pc' = branch
                          /\ err' = err
                          /\ iterations' =
                               IF branch = "parallel" THEN iterations
                               ELSE Iterations(tensors[model_inputs["predict_mask"]])
    /\ UNCHANGED main_vars
    /\ UNCHANGED <<call, decoding_strategy, model, labels, model_inputs,
                   tensors, orig, i, forward_calls, logits, loss, idx,
                   top_scores>>

\* The parallel branch: one forward pass, argmax at every predict position.
ParallelDecode ==
    /\ pc = "parallel"
    /\ \E tie \in TiePolicies,
          fwd \in {ForwardWTriggers(model, model_inputs, tensors, None)} :
         LET predict_mask == tensors["predict_mask"]
             preds == [r \in Rows |-> [p \in Pos |-> ArgMax(fwd.logits[r][p], tie)]]
         IN  /\ model_inputs' = fwd.caller
             /\ forward_calls' = forward_calls + (IF fwd.invoked THEN 1 ELSE 0)
             /\ logits' = fwd.logits
             /\ loss' = fwd.loss
             /\ IF fwd.raised
                THEN /\ Raise(fwd.err)
                     /\ output' = output
                ELSE /\ pc' = "exit"
                     /\ err' = err
                     /\ output' = [r \in Rows |-> [p \in Pos |->
                                     IF predict_mask[r][p] THEN preds[r][p]
                                     ELSE output[r][p]]]
    /\ UNCHANGED main_vars
    /\ UNCHANGED <<call, decoding_strategy, model, labels, tensors, orig,
                   iterations, i, idx, top_scores>>

\* One iteration of the monotonic loop.
MonotonicIteration ==
    /\ pc = "monotonic"
    /\ i < iterations
    /\ \E tie \in TiePolicies,
          fwd \in {ForwardWTriggers(model, model_inputs, tensors, None)},
          nz \in {Nonzero(tensors["predict_mask"])} :
         LET predict_mask == tensors["predict_mask"]
             input_ids == tensors["input_ids"]
         IN  /\ model_inputs' = fwd.caller
             /\ forward_calls' = forward_calls + (IF fwd.invoked THEN 1 ELSE 0)
             /\ logits' = fwd.logits
             /\ loss' = fwd.loss
             /\ IF fwd.raised
                THEN /\ Raise(fwd.err)
                     /\ UNCHANGED <<tensors, output, i, idx>>
                ELSE IF Len(nz) = 0
                THEN \* predict_mask.nonzero()[0, 1] on an empty result
                     /\ Raise("IndexError")
                     /\ UNCHANGED <<tensors, output, i, idx>>
                ELSE LET col == nz[1][2]
                         pred == [r \in Rows |-> [p \in Pos |->
                                    ArgMax(fwd.logits[r][col], tie)]]
                         false == Full(Cardinality(Rows), FALSE)
                     IN  /\ idx' = col
                         /\ tensors' =
                              [tensors EXCEPT
                                 !["input_ids"] = SetColumns(@, {col}, pred),
                                 !["predict_mask"] = SetColumns(@, {col}, false)]
                         /\ output' = SetColumns(output, {col}, pred)
                         /\ i' = i + 1
                         /\ UNCHANGED <<pc, err>>
    /\ UNCHANGED main_vars
    /\ UNCHANGED <<call, decoding_strategy, model, labels, orig, iterations,
                   top_scores>>

\* One iteration of the iterative loop.
IterativeIteration ==
    /\ pc = "iterative"
    /\ i < iterations
    /\ \E tie \in TiePolicies,
          fwd \in {ForwardWTriggers(model, model_inputs, tensors, None)} :
         LET predict_mask == tensors["predict_mask"]
             input_ids == tensors["input_ids"]
             \* logits[~predict_mask] = -1e32
             masked == [r \in Rows |-> [p \in Pos |-> [v \in Tok |->
                          IF predict_mask[r][p] THEN fwd.logits[r][p][v]
                          ELSE NEG_HUGE]]]
             \* top_scores, preds = torch.max(logits, dim=-1)
             scores == [r \in Rows |-> [p \in Pos |-> MaxVal(masked[r][p])]]
             preds == [r \in Rows |-> [p \in Pos |-> ArgMax(masked[r][p], tie)]]
             \* idx = torch.argmax(top_scores, dim=-1): one index per row
             sel == [r \in Rows |-> ArgMax(scores[r], tie)]
             cols == {sel[r] : r \in Rows}
             false == Full(Cardinality(Rows), FALSE)
         IN  /\ model_inputs' = fwd.caller
             /\ forward_calls' = forward_calls + (IF fwd.invoked THEN 1 ELSE 0)
             /\ logits' = fwd.logits
             /\ loss' = fwd.loss
             /\ IF fwd.raised
                THEN /\ Raise(fwd.err)
                     /\ UNCHANGED <<tensors, output, i, idx, top_scores>>
                ELSE /\ top_scores' = scores
                     /\ idx' = sel
                     \* pred = preds[:, idx]; input_ids[:, idx] = pred; ...
                     /\ tensors' =
                          [tensors EXCEPT
                             !["input_ids"] = SetColumns(@, cols, preds),
                             !["predict_mask"] = SetColumns(@, cols, false)]
                     /\ output' = SetColumns(output, cols, preds)
                     /\ i' = i + 1
                     /\ UNCHANGED <<pc, err>>
    /\ UNCHANGED main_vars
    /\ UNCHANGED <<call, decoding_strategy, model, labels, orig, iterations>>

\* return output: after the parallel branch, or when a loop has run out
Return ==
    /\ \/ pc = "exit"
       \/ pc \in {"monotonic", "iterative"} /\ i = iterations
    /\ pc' = "returned"
    /\ UNCHANGED main_vars
    /\ UNCHANGED <<call, err, decoding_strategy, model, labels, model_inputs,
                   tensors, orig, output, iterations, i, forward_calls,
                   logits, loss, idx, top_scores>>

\* -------------------------------------------- a direct forward_w_triggers
\* The call made by the training loop and the multiple-choice evaluator.
ForwardCall ==
    /\ call = "forward_w_triggers"
    /\ pc = "call"
    /\ \E fwd \in {ForwardWTriggers(model, model_inputs, tensors, labels)} :
           /\ model_inputs' = fwd.caller
           /\ forward_calls' = forward_calls + (IF fwd.invoked THEN 1 ELSE 0)
           /\ logits' = fwd.logits
           /\ loss' = fwd.loss
           /\ IF fwd.raised
              THEN Raise(fwd.err)
              ELSE /\ pc' = "returned"
                   /\ err' = err
    /\ UNCHANGED main_vars
    /\ UNCHANGED <<call, decoding_strategy, model, labels, tensors, orig,
                   output, iterations, i, idx, top_scores>>

Next ==
    \/ DecodeEntry
    \/ ParallelDecode
    \/ MonotonicIteration
    \/ IterativeIteration
    \/ Return
    \/ ForwardCall

Spec == Init /\ [][Next]_vars

\* ------------------------------------------------------------------ main
\* A quotient of two counts, kept exact as numerator and denominator.
\* total_correct / (denom + 1e-13): denom is a count, so the quotient is
\* total_correct / denom for denom >= 1 and 0 for an empty loader.
Accuracy(total_correct, denom) ==
    [num |-> total_correct, den |-> IF denom = 0 THEN 1 ELSE denom]

\* best_accuracy = 0
Zero == [num |-> 0, den |-> 1]

\* accuracy >= best_accuracy: a tie also counts as an improvement
GreaterOrEqual(x, y) == x.num * y.den >= y.num * x.den

\* accuracy > best_accuracy
Greater(x, y) == x.num * y.den > y.num * x.den

EvaluationStrategies == {"exact-match", "multiple-choice"}

\* ExactMatchEvaluator returns the single value `correct`, so the caller's
\* `loss, correct = evaluator(...)` raises TypeError on the first batch,
\* unless decode has raised before (IndexError, RuntimeError).
\* MultipleChoiceEvaluator returns the pair.
EvaluatorRaises(strategy, batches) ==
    IF strategy = "exact-match" /\ batches > 0
    THEN {"TypeError", "IndexError", "RuntimeError"}
    ELSE {}

\* optimizer.step() runs at every batch i with
\* i % accumulation_steps == accumulation_steps - 1
OptimizerSteps(batches, accumulation_steps) == batches \div accumulation_steps

\* decode's and forward_w_triggers' variables while main is the function
\* called
DecodeNotCalled ==
    /\ decoding_strategy = None
    /\ model = None
    /\ labels = None
    /\ model_inputs = << >>
    /\ tensors = << >>
    /\ orig = << >>
    /\ output = << >>
    /\ iterations = 0
    /\ i = 0
    /\ forward_calls = 0
    /\ logits = << >>
    /\ loss = None
    /\ idx = << >>
    /\ top_scores = << >>

\* main up to the head of the epoch loop, single process
\* (local_rank = -1, WORLD_SIZE unset, so is_main_process holds)
InitMain ==
    /\ call = "main"
    /\ pc = "loop"
    /\ err = "none"
    /\ args \in [epochs : 0 .. MaxEpochs,
                 evaluation_strategy : EvaluationStrategies,
                 accumulation_steps : 1 .. 2,
                 tmp : BOOLEAN]
    /\ train_loader \in 0 .. MaxTrain
    /\ dev_loader \in 0 .. MaxDev
    /\ restored_at_start \in BOOLEAN
    /\ ckpt = IF restored_at_start THEN <<-1>> ELSE << >>
    /\ params = IF restored_at_start THEN ckpt[1] ELSE 0
    /\ epoch = 0
    /\ accuracy = None
    /\ best_accuracy = Zero
    /\ history = << >>
    /\ DecodeNotCalled

\* one epoch's training loop: for epoch in range(args.epochs), the batches
\* of train_loader through the evaluator, optimizer.step()
TrainEpoch ==
    /\ call = "main"
    /\ pc = "loop"
    /\ epoch < args.epochs
    /\ LET raises == EvaluatorRaises(args.evaluation_strategy, train_loader)
       IN  IF raises # {}
           THEN /\ \E kind \in raises : Raise(kind)
                /\ UNCHANGED params
           ELSE /\ pc' = "eval"
                /\ err' = err
                /\ params' =
                     IF OptimizerSteps(train_loader,
                                       args.accumulation_steps) > 0
                     THEN epoch + 1
                     ELSE params
    /\ UNCHANGED <<call, args, train_loader, dev_loader, restored_at_start,
                   epoch, accuracy, best_accuracy, ckpt, history>>
    /\ UNCHANGED decode_vars

\* the epoch's evaluation on dev_loader, up to
\* accuracy = total_correct / (denom + 1e-13)
EvalEpoch ==
    /\ call = "main"
    /\ pc = "eval"
    /\ LET raises == EvaluatorRaises(args.evaluation_strategy, dev_loader)
       IN  IF raises # {}
           THEN /\ \E kind \in raises : Raise(kind)
                /\ UNCHANGED accuracy
           ELSE /\ pc' = "select"
                /\ err' = err
                /\ \E total_correct \in 0 .. dev_loader :
                     accuracy' = Accuracy(total_correct, dev_loader)
    /\ UNCHANGED <<call, args, train_loader, dev_loader, restored_at_start,
                   epoch, params, best_accuracy, ckpt, history>>
    /\ UNCHANGED decode_vars

\* if accuracy > best_accuracy: best_accuracy = accuracy and
\* torch.save(model.state_dict(), ckpt_path); then the next epoch
SelectBest ==
    /\ call = "main"
    /\ pc = "select"
    /\ \E better \in {Greater(accuracy, best_accuracy)} :
         /\ best_accuracy' = IF better THEN accuracy ELSE best_accuracy
         /\ ckpt' = IF better THEN <<params>> ELSE ckpt
         /\ history' = Append(history, [accuracy |-> accuracy,
                                        params |-> params,
                                        saved |-> better,
                                        best_accuracy |-> best_accuracy'])
    /\ epoch' = epoch + 1
    /\ pc' = "loop"
    /\ UNCHANGED <<call, err, args, train_loader, dev_loader,
                   restored_at_start, params, accuracy>>
    /\ UNCHANGED decode_vars

\* after the loop: if ckpt_path.exists(): model.load_state_dict(
\* torch.load(ckpt_path))
RestoreCheckpoint ==
    /\ call = "main"
    /\ pc = "loop"
    /\ epoch = args.epochs
    /\ params' = IF ckpt # << >> THEN ckpt[1] ELSE params
    /\ pc' = "test"
    /\ UNCHANGED <<call, err, args, train_loader, dev_loader,
                   restored_at_start, epoch, accuracy, best_accuracy, ckpt,
                   history>>
    /\ UNCHANGED decode_vars

\* the evaluation on test_loader and its logging; total_loss is bound only
\* by the epoch loop, so with no epoch its use in the logging is a NameError
Test ==
    /\ call = "main"
    /\ pc = "test"
    /\ \E test_loader \in 0 .. 1 :
         LET raises == EvaluatorRaises(args.evaluation_strategy, test_loader)
         IN  IF raises # {}
             THEN /\ \E kind \in raises : Raise(kind)
                  /\ UNCHANGED accuracy
             ELSE /\ \E total_correct \in 0 .. test_loader :
                       accuracy' = Accuracy(total_correct, test_loader)
                  /\ IF args.epochs = 0
                     THEN Raise("NameError")
                     ELSE /\ pc' = "cleanup"
                          /\ err' = err
    /\ UNCHANGED <<call, args, train_loader, dev_loader, restored_at_start,
                   epoch, params, best_accuracy, ckpt, history>>
    /\ UNCHANGED decode_vars

\* if args.tmp: os.remove(ckpt_path)
Cleanup ==
    /\ call = "main"
    /\ pc = "cleanup"
    /\ IF args.tmp
       THEN IF ckpt = << >>
            THEN /\ Raise("FileNotFoundError")
                 /\ UNCHANGED ckpt
            ELSE /\ ckpt' = << >>
                 /\ pc' = "done"
                 /\ err' = err
       ELSE /\ pc' = "done"
            /\ err' = err
            /\ UNCHANGED ckpt
    /\ UNCHANGED <<call, args, train_loader, dev_loader, restored_at_start,
                   epoch, params, accuracy, best_accuracy, history>>
    /\ UNCHANGED decode_vars

NextMain ==
    \/ TrainEpoch
    \/ EvalEpoch
    \/ SelectBest
    \/ RestoreCheckpoint
    \/ Test
    \/ Cleanup

SpecMain == InitMain /\ [][NextMain]_vars

\* ------------------------------------------------------------- properties
ValidStrategy == decoding_strategy \in {"parallel", "monotonic", "iterative"}
OrigMask == orig.tensors["predict_mask"]
BundleUnchanged == model_inputs = orig.dict /\ tensors = orig.tensors
AllIgnore == \A r \in Rows, p \in Pos : output[r][p] = IGNORE
OpenCells == {c \in Rows \X Pos : tensors["predict_mask"][c[1]][c[2]]}

\* C1: when decode returns, the output buffer holds a token id at every
\* position that was true in the original predict mask and the sentinel -100
\* at every position that was false in it, for each strategy and any batch.
C1_Postcondition ==
    (call = "decode" /\ pc = "returned") =>
        \A r \in Rows, p \in Pos :
            IF OrigMask[r][p] THEN output[r][p] \in Tok
            ELSE output[r][p] = IGNORE

\* C2: monotonic and iterative decode never raise, every iteration still has
\* an open predict position to resolve, and decode returns after exactly N
\* iterations and N forward passes with the predict mask all false, N being
\* the number of true entries of the original predict mask.
C2_Termination ==
    (call = "decode" /\ decoding_strategy \in {"monotonic", "iterative"}) =>
        /\ pc # "raised"
        /\ (pc \in {"monotonic", "iterative"} /\ i < iterations) =>
               OpenCells # {}
        /\ pc = "returned" =>
               /\ i = N0
               /\ forward_calls = N0
               /\ OpenCells = {}

\* C3: every monotonic iteration commits the leftmost position still true in
\* the predict mask, and the index it commits is strictly greater than the
\* index committed by the iteration before it.
C3_MonotonicOrder ==
    [][(pc = "monotonic" /\ i' = i + 1) =>
          /\ idx' = Min({c[2] : c \in OpenCells})
          /\ i >= 1 => idx' > idx]_vars

\* C4: every iterative iteration commits exactly one (row, position) pair:
\* an open predict position whose maximum logit is highest over all open
\* predict positions of the batch; its argmax token is written to the token
\* ids and to the output buffer at that pair only, and only that pair is
\* cleared from the predict mask.
C4_IterativeCommitsOne ==
    [][(pc = "iterative" /\ i' = i + 1) =>
          \E c \in OpenCells :
              /\ \A d \in OpenCells :
                    MaxVal(logits'[d[1]][d[2]]) <= MaxVal(logits'[c[1]][c[2]])
              /\ \E tok \in ArgMaxSet(logits'[c[1]][c[2]]) :
                    /\ tensors'["input_ids"] =
                         [tensors["input_ids"] EXCEPT ![c[1]][c[2]] = tok]
                    /\ output' = [output EXCEPT ![c[1]][c[2]] = tok]
              /\ tensors'["predict_mask"] =
                   [tensors["predict_mask"] EXCEPT ![c[1]][c[2]] = FALSE]]_vars

\* C5 (as stated): with a single example in the batch, the logit of the token
\* committed by an iterative iteration is at most the logit of the token
\* committed by the iteration before it.
C5_NonIncreasingAcrossPasses ==
    [][(pc = "iterative" /\ i' = i + 1 /\ i >= 1 /\ Rows = {0}) =>
          top_scores'[0][idx'[0]] <= top_scores[0][idx[0]]]_vars

\* C5 (amended): in the forward pass of every iterative iteration the position
\* selected for a row has the highest suppressed top logit of that row, so no
\* position committed later had a higher logit in that same pass.
C5_SelectedIsMaxOfItsPass ==
    (decoding_strategy = "iterative" /\ i >= 1) =>
        \A r \in Rows, p \in Pos : top_scores[r][p] <= top_scores[r][idx[r]]

\* witness of C5: a single example, two iterative iterations done, the second
\* selection made among a real (unsuppressed) score
C5_Witness ==
    /\ decoding_strategy = "iterative"
    /\ Rows = {0}
    /\ i >= 2
    /\ top_scores[0][idx[0]] > NEG_HUGE

\* C6 (as stated): decode with an empty predict mask returns an all-sentinel
\* output, invokes the forward pass zero times and leaves the bundle unchanged,
\* under each of the three strategies.
C6_NoForwardPass ==
    (call = "decode" /\ ValidStrategy /\ N0 = 0 /\ pc = "returned") =>
        /\ AllIgnore
        /\ forward_calls = 0
        /\ BundleUnchanged

\* C6 (amended): decode with an empty predict mask never raises and returns an
\* all-sentinel output with the bundle unchanged; monotonic and iterative
\* invoke the forward pass zero times, parallel invokes it exactly once.
C6_EmptyMask ==
    (call = "decode" /\ ValidStrategy /\ N0 = 0) =>
        /\ pc # "raised"
        /\ pc = "returned" =>
               /\ AllIgnore
               /\ forward_calls = (IF decoding_strategy = "parallel" THEN 1 ELSE 0)
               /\ BundleUnchanged

\* witness of C6: a two-example batch without predict positions, decoded and
\* returned by a looping strategy
C6_Witness ==
    /\ call = "decode"
    /\ decoding_strategy \in {"monotonic", "iterative"}
    /\ N0 = 0
    /\ Rows = {0, 1}
    /\ pc = "returned"

\* C7: parallel decode invokes the forward pass exactly once, writes at every
\* predict position an argmax over the vocabulary of the logits at that
\* (row, position), and changes neither the token ids nor the predict mask.
C7_Parallel ==
    (decoding_strategy = "parallel" /\ pc = "returned") =>
        /\ forward_calls = 1
        /\ \A r \in Rows, p \in Pos :
              OrigMask[r][p] => output[r][p] \in ArgMaxSet(logits[r][p])
        /\ tensors["input_ids"] = orig.tensors["input_ids"]
        /\ tensors["predict_mask"] = OrigMask

\* witness of C7: parallel decode returned for a two-example batch with
\* predict positions in both examples and logits that are not all tied
C7_Witness ==
    /\ decoding_strategy = "parallel"
    /\ pc = "returned"
    /\ Rows = {0, 1}
    /\ \A r \in Rows : \E p \in Pos : OrigMask[r][p]
    /\ \E r \in Rows, p \in Pos :
          OrigMask[r][p] /\ ArgMaxSet(logits[r][p]) # Tok

\* C8: forward_w_triggers leaves the caller's bundle unmodified: whether it
\* returns or raises, with or without labels, the caller's dict has the same
\* keys bound to the same tensors with the same values, and no new key.
C8_BundleUnmodified ==
    /\ model_inputs = orig.dict
    /\ (call = "forward_w_triggers" /\ pc # "call") => tensors = orig.tensors

\* witness of C8: a direct call with labels that reached the model and returned
C8_Witness ==
    /\ call = "forward_w_triggers"
    /\ pc = "returned"
    /\ labels # None
    /\ loss # None
    /\ forward_calls = 1

\* the number of true entries of one row of a mask
RowCount(row) == Cardinality({p \in Pos : row[p]})

\* C9 (as stated): forward_w_triggers raises, before the model's forward is
\* invoked, whenever some example's number of trigger positions differs from
\* the number of rows of relation_embeds.
C9_PerExampleMismatchRaises ==
    (/\ call = "forward_w_triggers"
     /\ pc # "call"
     /\ \E r \in Rows : RowCount(tensors["trigger_mask"][r]) # model.nt) =>
        /\ pc = "raised"
        /\ forward_calls = 0

\* C9 (amended): forward_w_triggers raises exactly when the batch's total
\* number of trigger positions differs from batch_size times the number of
\* rows of relation_embeds and that product is not 1 (a single row is
\* broadcast); when it raises the model's forward has not been invoked.
C9_TotalMismatchRaises ==
    (call = "forward_w_triggers" /\ pc # "call") =>
        LET k == Cardinality(Rows) * model.nt
        IN  /\ pc = "raised" <=>
                 (MaskSum(tensors["trigger_mask"]) # k /\ k # 1)
            /\ pc = "raised" => (err = "RuntimeError" /\ forward_calls = 0)

\* witness of C9: a two-example batch whose total trigger count is wrong, raised
C9_Witness ==
    /\ call = "forward_w_triggers"
    /\ pc = "raised"
    /\ Rows = {0, 1}
    /\ MaskSum(tensors["trigger_mask"]) > 2 * model.nt

\* C10: decode with a strategy other than parallel, monotonic and iterative
\* fails at once: it raises, no forward pass is invoked, nothing is returned
\* and the bundle is unchanged.
C10_UnknownStrategy ==
    (call = "decode" /\ ~ValidStrategy /\ pc # "call") =>
        /\ pc = "raised"
        /\ err \in {"AssertionError", "ValueError"}
        /\ forward_calls = 0
        /\ BundleUnchanged

\* witness of C10: the unknown strategy got past a disabled assert and was
\* rejected by the final else
C10_Witness ==
    /\ call = "decode"
    /\ ~ValidStrategy
    /\ pc = "raised"
    /\ err = "ValueError"

\* C11: conditioning invariant of monotonic and iterative decode. At every
\* forward pass and at return, for every (row, position): an output entry
\* that is not the sentinel lies at a position that was true in the original
\* predict mask, is false in the predict mask now, and the token ids hold the
\* same token there; where the output entry is the sentinel the token ids
\* still hold their original token.
C11_ConditioningInvariant ==
    (/\ call = "decode"
     /\ decoding_strategy \in {"monotonic", "iterative"}
     /\ pc \in {"monotonic", "iterative", "returned"}) =>
        \A r \in Rows, p \in Pos :
            IF output[r][p] # IGNORE
            THEN /\ OrigMask[r][p]
                 /\ ~tensors["predict_mask"][r][p]
                 /\ tensors["input_ids"][r][p] = output[r][p]
            ELSE tensors["input_ids"][r][p] =
                     orig.tensors["input_ids"][r][p]

\* the order of two accuracies as numbers: x is strictly above y
Exceeds(x, y) == x.num * y.den > y.num * x.den
\* the completed epochs, numbered from 1
Epochs == 1 .. Len(history)
\* the first epoch whose dev accuracy no epoch of the run exceeds
FirstBestEpoch ==
    Min({e \in Epochs :
            \A k \in Epochs :
                ~Exceeds(history[k].accuracy, history[e].accuracy)})

\* C12: best-checkpoint selection in main, single process, no checkpoint file
\* at the start. best_accuracy never decreases from one epoch to the next;
\* an epoch writes the checkpoint exactly when its dev accuracy is strictly
\* greater than that of every earlier epoch and than 0; and, if some epoch
\* has a dev accuracy above 0, the parameters restored for testing are those
\* saved at the first epoch that attains the maximum dev accuracy of the run.
C12_BestCheckpoint ==
    (call = "main" /\ ~restored_at_start) =>
        /\ \A e \in Epochs :
             /\ ~Exceeds(IF e = 1 THEN Zero ELSE history[e - 1].best_accuracy,
                         history[e].best_accuracy)
             /\ history[e].saved <=>
                  /\ Exceeds(history[e].accuracy, Zero)
                  /\ \A k \in 1 .. (e - 1) :
                       Exceeds(history[e].accuracy, history[k].accuracy)
        /\ pc \in {"select", "loop"} =>
             best_accuracy = IF history = << >> THEN Zero
                             ELSE history[Len(history)].best_accuracy
        /\ (/\ pc \in {"test", "cleanup", "done"}
            /\ \E e \in Epochs : Exceeds(history[e].accuracy, Zero)) =>
             /\ history[FirstBestEpoch].saved
             /\ params = history[FirstBestEpoch].params

\* witness of C12: a run of three epochs with dev accuracies 1/2, 2/2, 2/2 has
\* restored for testing the parameters of its second epoch, the first to
\* attain the maximum, the third epoch having trained different ones
C12_Witness ==
    /\ call = "main"
    /\ ~restored_at_start
    /\ pc = "test"
    /\ Len(history) = 3
    /\ Exceeds(history[1].accuracy, Zero)
    /\ Exceeds(history[2].accuracy, history[1].accuracy)
    /\ history[3].accuracy = history[2].accuracy
    /\ history[3].params # history[2].params
    /\ params = history[2].params

====
